---- MODULE Spec2Model ----
(***************************************************************************)
(* State-machine model of the ZettlrFile class                             *)
(* (source/main/zettlr-file.js): one file model, the directory model that  *)
(* owns it, the disk, the trash and the watchdog that reports filesystem   *)
(* events.                                                                 *)
(*                                                                         *)
(* Strings are sequences of UTF-16 code units (JavaScript strings).  A     *)
(* file on disk is a UTF-8 byte stream, kept here as the sequence of       *)
(* Unicode scalar values the stream encodes.                               *)
(***************************************************************************)
EXTENDS Integers, Sequences, FiniteSets, TLC

(* ----------------------------- bounds ---------------------------------- *)
\* number of writes (save or foreign write) in one behaviour
MaxClock == 2
\* filesystem events waiting in the watchdog
MaxEvents == 2
\* suppression entries waiting in the watchdog
MaxIgnored == 2

(* ------------------------- program constants --------------------------- *)
\* length of the preview kept in this.snippet
SnippetLen == 50

(* ------------------------------ strings -------------------------------- *)
\* "a.md", "b.md", "b", "/", ".md" and the ellipsis as code units
NameA == <<97, 46, 109, 100>>
NameB == <<98, 46, 109, 100>>
StemB == <<98>>
Slash == <<47>>
DotMd == <<46, 109, 100>>
Ellipsis == <<8230>>

\* a text of SnippetLen + 1 characters
LongText == [i \in 1..(SnippetLen + 1) |-> 97]

IsHighSurrogate(u) == u >= 55296 /\ u <= 56319
IsLowSurrogate(u) == u >= 56320 /\ u <= 57343
IsSurrogate(u) == u >= 55296 /\ u <= 57343

\* String.prototype.indexOf(w) > -1
Contains(s, w) ==
    \E i \in 0..(Len(s) - Len(w)) : SubSeq(s, i + 1, i + Len(w)) = w

\* String.prototype.toLowerCase on the letters A-Z
toLowerCase(s) ==
    [i \in 1..Len(s) |-> IF s[i] >= 65 /\ s[i] <= 90 THEN s[i] + 32 ELSE s[i]]

\* The UTF-8 encoder of fs.writeFileSync: a surrogate pair becomes one
\* scalar value, an unpaired surrogate becomes U+FFFD.
RECURSIVE Utf8Encode(_)
Utf8Encode(s) ==
    IF s = <<>> THEN <<>>
    ELSE IF IsHighSurrogate(s[1]) /\ Len(s) >= 2 /\ IsLowSurrogate(s[2])
         THEN <<65536 + (s[1] - 55296) * 1024 + (s[2] - 56320)>>
                  \o Utf8Encode(SubSeq(s, 3, Len(s)))
    ELSE IF IsSurrogate(s[1])
         THEN <<65533>> \o Utf8Encode(Tail(s))
    ELSE <<s[1]>> \o Utf8Encode(Tail(s))

\* The UTF-8 decoder of fs.readFileSync: a scalar value above U+FFFF becomes
\* a surrogate pair.
RECURSIVE Utf8Decode(_)
Utf8Decode(d) ==
    IF d = <<>> THEN <<>>
    ELSE IF d[1] >= 65536
         THEN <<55296 + ((d[1] - 65536) \div 1024),
                56320 + ((d[1] - 65536) % 1024)>> \o Utf8Decode(Tail(d))
    ELSE <<d[1]>> \o Utf8Decode(Tail(d))

\* the preview computed in setContent and in read
Snippet(cnt) ==
    IF Len(cnt) > SnippetLen THEN SubSeq(cnt, 1, SnippetLen) \o Ellipsis ELSE cnt

(* ------------------------------- paths --------------------------------- *)
\* A path is its directory and its base name; path.join(path.dirname(p), n)
\* is [dir |-> p.dir, name |-> n] for a name without separators.
\* the directories on disk, "/n" and "/a"; none is created or removed
DirsOnDisk == {"/n", "/a"}
DirChars(d) == IF d = "/n" THEN <<47, 110>> ELSE <<47, 97>>
Path(d, n) == [dir |-> d, name |-> n]
NoPath == Path("", <<>>)
PathString(p) == DirChars(p.dir) \o Slash \o p.name

\* hash() of zettlr-helpers.js: a deterministic string hash of the path,
\* kept to 16 bits here
RECURSIVE HashFrom(_, _)
HashFrom(h, s) ==
    IF s = <<>> THEN h ELSE HashFrom((h * 31 + s[1]) % 65536, Tail(s))
hash(p) == HashFrom(0, PathString(p))

\* sanitize-filename: illegal characters are removed, a name of dots only
\* is reserved, trailing dots and spaces are removed.
RECURSIVE StripIllegal(_)
StripIllegal(s) ==
    IF s = <<>> THEN <<>>
    ELSE IF s[1] \in {47, 63, 60, 62, 92, 58, 42, 124, 34} \/ s[1] < 32
         THEN StripIllegal(Tail(s))
    ELSE <<s[1]>> \o StripIllegal(Tail(s))
RECURSIVE StripTrailing(_)
StripTrailing(s) ==
    IF s # <<>> /\ s[Len(s)] \in {46, 32}
    THEN StripTrailing(SubSeq(s, 1, Len(s) - 1)) ELSE s
sanitize(nm) ==
    LET s1 == StripIllegal(nm)
        s2 == IF s1 # <<>> /\ \A i \in 1..Len(s1) : s1[i] = 46 THEN <<>> ELSE s1
    IN StripTrailing(s2)

\* ignoreFile() of zettlr-helpers.js: no recognized document extension
ignoreFile(nm) ==
    ~(Len(nm) > Len(DotMd) /\ SubSeq(nm, Len(nm) - Len(DotMd) + 1, Len(nm)) = DotMd)


(* ------------------------------- inputs -------------------------------- *)
\* texts handed to setContent: "x", an unpaired surrogate and a text longer
\* than the preview
ContentInputs == {<<120>>, <<55296>>, LongText}
\* texts another program writes to the file: "X"
ForeignTexts == {<<88>>}
\* names handed to rename: "b.md", "b" and "/"
NameInputs == {NameB, StemB, Slash}
\* the watchdog argument of rename: omitted (null), an object that owns an
\* ignoreNext property, an object that inherits ignoreNext from its class
WatchdogInputs == {"null", "own", "inherited"}
\* search terms: AND "a", AND "x", OR ["q", "x"], and lists of two terms
TermA == [operator |-> "AND", word |-> <<97>>]
TermX == [operator |-> "AND", word |-> <<120>>]
TermQX == [operator |-> "OR", word |-> << <<113>>, <<120>> >>]
TermAA == [operator |-> "AND", word |-> <<97, 97>>]
SearchInputs ==
    {<<TermA>>, <<TermX>>, <<TermQX>>, <<TermA, TermX>>, <<TermX, TermQX>>,
     <<TermA, TermAA>>}

(* -------------------------------- state -------------------------------- *)
VARIABLES
    file,       \* the fields of the ZettlrFile object
    attached,   \* the object is in its parent's list of children
    disk,       \* path -> [content, mtime] of the files that exist
    clock,      \* the filesystem's time
    ignored,    \* the watchdog's suppression entries
    events,     \* filesystem events the watchdog has not delivered yet
    trace,      \* calls the last operation made on its collaborators
    last,       \* the last operation, its argument and its outcome
    pendingSet, \* history: a setContent happened since the last save
    roundTrip   \* history: the text of the setContent that the last save wrote

vars == <<file, attached, disk, clock, ignored, events, trace, last,
          pendingSet, roundTrip>>

Call(c, a, p, q) == [call |-> c, arg |-> a, p |-> p, q |-> q]
Event(t, p, s) == [type |-> t, path |-> p, self |-> s]
NoEvent == Event("", NoPath, FALSE)
Last(op, err, ret) ==
    [op |-> op, err |-> err, ret |-> ret, name |-> <<>>, wd |-> "", ev |-> NoEvent,
     arg |-> <<>>]
None == [set |-> FALSE, text |-> <<>>]
Some(x) == [set |-> TRUE, text |-> x]

\* fs.writeFileSync(p, text, utf8) at time t
writeFileSync(d, p, text, t) ==
    [q \in DOMAIN d \cup {p} |->
        IF q = p THEN [content |-> Utf8Encode(text), mtime |-> t] ELSE d[q]]

\* a file leaves the directory it is in
unlinkFile(d, p) == [q \in DOMAIN d \ {p} |-> d[q]]

\* fs.renameSync(old, new)
renameSync(d, old, new) ==
    IF old \notin DOMAIN d
    THEN [err |-> "ENOENT", disk |-> d]
    ELSE [err |-> "",
          disk |-> [q \in (DOMAIN d \ {old}) \cup {new} |->
                       IF q = new THEN d[old] ELSE d[q]]]

(* ------------------------------ read ----------------------------------- *)
\* read with the buffer cleared as well
read_clearsBuffer(d, fl) ==
    IF fl.path \notin DOMAIN d
    THEN [err |-> "ENOENT", file |-> fl, ret |-> <<>>,
          trace |-> <<Call("fs.lstatSync", "", fl.path, NoPath)>>]
    ELSE LET cnt == Utf8Decode(d[fl.path].content)
         IN [err |-> "",
             file |-> [fl EXCEPT !.modtime = d[fl.path].mtime,
                                 !.snippet = Snippet(cnt),
                                 !.content = <<>>,
                                 !.modified = FALSE],
             ret |-> cnt,
             trace |-> <<Call("fs.readFileSync", "", fl.path, NoPath)>>]

\* read(): stat, read the whole file, refresh modtime and snippet, clear the
\* modified flag; this.content is not assigned.
read(d, fl) ==
    IF fl.path \notin DOMAIN d
    THEN [err |-> "ENOENT", file |-> fl, ret |-> <<>>,
          trace |-> <<Call("fs.lstatSync", "", fl.path, NoPath)>>]
    ELSE LET cnt == Utf8Decode(d[fl.path].content)
         IN [err |-> "",
             file |-> [fl EXCEPT !.modtime = d[fl.path].mtime,
                                 !.snippet = Snippet(cnt),
                                 !.modified = FALSE],
             ret |-> cnt,
             trace |-> <<Call("fs.readFileSync", "", fl.path, NoPath)>>]

\* update(): read() and return this
update(d, fl) == read(d, fl)

(* ------------------------------ save ----------------------------------- *)
\* save that leaves the buffer as it is
save_keepsBuffer(d, fl, t) ==
    LET d1 == writeFileSync(d, fl.path, fl.content, t)
        r == read(d1, [fl EXCEPT !.modified = FALSE])
    IN [err |-> r.err, file |-> r.file, disk |-> d1,
        trace |-> <<Call("fs.writeFileSync", "", fl.path, NoPath)>> \o r.trace]

\* save(): write the buffer, clear it, clear the flag, read()
save(d, fl, t) ==
    LET d1 == writeFileSync(d, fl.path, fl.content, t)
        r == read(d1, [fl EXCEPT !.content = <<>>, !.modified = FALSE])
    IN [err |-> r.err, file |-> r.file, disk |-> d1,
        trace |-> <<Call("fs.writeFileSync", "", fl.path, NoPath)>> \o r.trace]

(* --------------------------- remove, detach ---------------------------- *)
\* shell.moveItemToTrash(p): best effort, never throws
moveItemToTrash(d, p) ==
    IF p \in DOMAIN d
    THEN [disk |-> unlinkFile(d, p), events |-> <<Event("unlink", p, TRUE)>>]
    ELSE [disk |-> d, events |-> <<>>]

\* remove(): trash the file, then parent.remove(this)
remove(d, fl, att) ==
    LET m == moveItemToTrash(d, fl.path)
        t1 == <<Call("shell.moveItemToTrash", "", fl.path, NoPath)>>
    IN IF fl.parent = "null"
       THEN [err |-> "TypeError", disk |-> m.disk,
             attached |-> att, events |-> m.events, trace |-> t1]
       ELSE [err |-> "", disk |-> m.disk,
             attached |-> FALSE, events |-> m.events,
             trace |-> t1 \o <<Call("parent.remove", "", NoPath, NoPath)>>]

\* detach() without the assignment this.parent = null
detach_keepsParent(fl, att) ==
    IF fl.parent = "null"
    THEN [err |-> "TypeError", file |-> fl, attached |-> att, trace |-> <<>>]
    ELSE [err |-> "", file |-> fl, attached |-> FALSE,
          trace |-> <<Call("parent.remove", "", NoPath, NoPath)>>]

\* detach(): parent.remove(this), then this.parent = null
detach(fl, att) ==
    IF fl.parent = "null"
    THEN [err |-> "TypeError", file |-> fl, attached |-> att, trace |-> <<>>]
    ELSE [err |-> "", file |-> [fl EXCEPT !.parent = "null"], attached |-> FALSE,
          trace |-> <<Call("parent.remove", "", NoPath, NoPath)>>]

(* ------------------------------ rename --------------------------------- *)
\* the two watchdog.ignoreNext calls of rename
ignoreNextCalls(old, new) ==
    <<Call("watchdog.ignoreNext", "unlink", old, NoPath),
      Call("watchdog.ignoreNext", "add", new, NoPath)>>
ignoreNextEntries(old, new) ==
    <<[type |-> "unlink", path |-> old], [type |-> "add", path |-> new]>>

\* rename that assigns this.name ahead of the check of the name
rename_nameFirst(d, fl, ign, nm, wd) ==
    LET clean == sanitize(nm)
        final == IF ignoreFile(clean) THEN clean \o DotMd ELSE clean
        fl1 == [fl EXCEPT !.name = final]
        newpath == Path(fl.path.dir, final)
        \* typeof null is 'object', and null has no hasOwnProperty
        ign1 == IF wd = "own" THEN ign \o ignoreNextEntries(fl.path, newpath) ELSE ign
        t1 == IF wd = "own" THEN ignoreNextCalls(fl.path, newpath) ELSE <<>>
        mv == renameSync(d, fl.path, newpath)
        t2 == t1 \o <<Call("fs.renameSync", "", fl.path, newpath)>>
        fl2 == [fl1 EXCEPT !.path = newpath, !.hash = hash(newpath)]
        evs == IF newpath = fl.path THEN <<>>
               ELSE <<Event("unlink", fl.path, TRUE), Event("add", newpath, TRUE)>>
    IN IF clean = <<>>
       THEN [err |-> "FileError", file |-> fl1, disk |-> d, ignored |-> ign,
             events |-> <<>>, trace |-> <<>>]
       ELSE IF wd = "null"
       THEN [err |-> "TypeError", file |-> fl1, disk |-> d, ignored |-> ign,
             events |-> <<>>, trace |-> <<>>]
       ELSE IF mv.err # ""
       THEN [err |-> mv.err, file |-> fl1, disk |-> d, ignored |-> ign1,
             events |-> <<>>, trace |-> t2]
       ELSE IF fl.parent = "null"
       THEN [err |-> "TypeError", file |-> fl2, disk |-> mv.disk, ignored |-> ign1,
             events |-> evs, trace |-> t2]
       ELSE [err |-> "", file |-> fl2, disk |-> mv.disk, ignored |-> ign1,
             events |-> evs,
             trace |-> t2 \o <<Call("parent.sort", "", NoPath, NoPath)>>]

\* rename(name, watchdog)
rename(d, fl, ign, nm, wd) ==
    LET clean == sanitize(nm)
        final == IF ignoreFile(clean) THEN clean \o DotMd ELSE clean
        fl1 == [fl EXCEPT !.name = final]
        newpath == Path(fl.path.dir, final)
        \* typeof null is 'object', and null has no hasOwnProperty
        ign1 == IF wd = "own" THEN ign \o ignoreNextEntries(fl.path, newpath) ELSE ign
        t1 == IF wd = "own" THEN ignoreNextCalls(fl.path, newpath) ELSE <<>>
        mv == renameSync(d, fl.path, newpath)
        t2 == t1 \o <<Call("fs.renameSync", "", fl.path, newpath)>>
        fl2 == [fl1 EXCEPT !.path = newpath, !.hash = hash(newpath)]
        evs == IF newpath = fl.path THEN <<>>
               ELSE <<Event("unlink", fl.path, TRUE), Event("add", newpath, TRUE)>>
    IN IF clean = <<>>
       THEN [err |-> "FileError", file |-> fl, disk |-> d, ignored |-> ign,
             events |-> <<>>, trace |-> <<>>]
       ELSE IF wd = "null"
       THEN [err |-> "TypeError", file |-> fl1, disk |-> d, ignored |-> ign,
             events |-> <<>>, trace |-> <<>>]
       ELSE IF mv.err # ""
       THEN [err |-> mv.err, file |-> fl1, disk |-> d, ignored |-> ign1,
             events |-> <<>>, trace |-> t2]
       ELSE IF fl.parent = "null"
       THEN [err |-> "TypeError", file |-> fl2, disk |-> mv.disk, ignored |-> ign1,
             events |-> evs, trace |-> t2]
       ELSE [err |-> "", file |-> fl2, disk |-> mv.disk, ignored |-> ign1,
             events |-> evs,
             trace |-> t2 \o <<Call("parent.sort", "", NoPath, NoPath)>>]

(* ------------------------------- move ---------------------------------- *)
\* move that keeps the hash of the old path
move_staleHash(d, fl, att, toPath) ==
    LET dt == detach(fl, att)
        newpath == Path(toPath, fl.name)
        fl1 == [dt.file EXCEPT !.path = newpath]
        mv == renameSync(d, fl.path, newpath)
        evs == IF newpath = fl.path \/ mv.err # "" THEN <<>>
               ELSE <<Event("unlink", fl.path, TRUE), Event("add", newpath, TRUE)>>
    IN IF dt.err # ""
       THEN [err |-> dt.err, file |-> fl, attached |-> att, disk |-> d,
             events |-> <<>>, trace |-> dt.trace]
       ELSE [err |-> mv.err, file |-> fl1, attached |-> dt.attached, disk |-> mv.disk,
             events |-> evs,
             trace |-> dt.trace \o <<Call("fs.renameSync", "", fl.path, newpath)>>]

\* move(toPath): detach, new path and hash, then the filesystem move
move(d, fl, att, toPath) ==
    LET dt == detach(fl, att)
        newpath == Path(toPath, fl.name)
        fl1 == [dt.file EXCEPT !.path = newpath, !.hash = hash(newpath)]
        mv == renameSync(d, fl.path, newpath)
        evs == IF newpath = fl.path \/ mv.err # "" THEN <<>>
               ELSE <<Event("unlink", fl.path, TRUE), Event("add", newpath, TRUE)>>
    IN IF dt.err # ""
       THEN [err |-> dt.err, file |-> fl, attached |-> att, disk |-> d,
             events |-> <<>>, trace |-> dt.trace]
       ELSE [err |-> mv.err, file |-> fl1, attached |-> dt.attached, disk |-> mv.disk,
             events |-> evs,
             trace |-> dt.trace \o <<Call("fs.renameSync", "", fl.path, newpath)>>]

(* ----------------------------- handleEvent ----------------------------- *)
\* isScope answering for every path inside the model's directory
isScope_sameDir(fl, p) == p.dir = fl.path.dir

\* isScope(p): this if p is the model's path
isScope(fl, p) == p = fl.path

NotifyChanged == Call("parent.notifyChange", "changed remotely", NoPath, NoPath)
NotifyRemoved == Call("parent.notifyChange", "removed", NoPath, NoPath)

\* handleEvent with the removal ahead of the notification
handleEvent_removeFirst(d, fl, att, p, e) ==
    LET same == [err |-> "", file |-> fl, disk |-> d, attached |-> att,
                 events |-> <<>>, trace |-> <<>>]
    IN IF ~isScope(fl, p) THEN same
       ELSE IF e = "change"
       THEN LET u == update(d, fl)
            IN [same EXCEPT !.err = u.err, !.file = u.file,
                            !.trace = <<NotifyChanged>> \o u.trace]
       ELSE IF e = "unlink"
       THEN LET r == remove(d, fl, att)
            IN [same EXCEPT !.err = r.err, !.disk = r.disk, !.attached = r.attached,
                            !.events = r.events,
                            !.trace = r.trace \o <<NotifyRemoved>>]
       ELSE same

\* handleEvent(p, e), called on a model that has a parent
handleEvent(d, fl, att, p, e) ==
    LET same == [err |-> "", file |-> fl, disk |-> d, attached |-> att,
                 events |-> <<>>, trace |-> <<>>]
    IN IF ~isScope(fl, p) THEN same
       ELSE IF e = "change"
       THEN LET u == update(d, fl)
            IN IF u.err # ""
               THEN [same EXCEPT !.err = u.err, !.trace = u.trace]
               ELSE [same EXCEPT !.file = u.file,
                                 !.trace = u.trace \o <<NotifyChanged>>]
       ELSE IF e = "unlink"
       THEN LET r == remove(d, fl, att)
            IN [same EXCEPT !.err = r.err, !.disk = r.disk, !.attached = r.attached,
                            !.events = r.events,
                            !.trace = <<NotifyRemoved>> \o r.trace]
       ELSE same

(* ------------------------------- search -------------------------------- *)
\* one pass of search over the terms: the number of terms that s matches
RECURSIVE CountMatches(_, _)
CountMatches(terms, s) ==
    IF terms = <<>> THEN 0
    ELSE LET t == Head(terms)
             hit == IF t.operator = "AND" THEN Contains(s, t.word)
                    ELSE \E i \in 1..Len(t.word) : Contains(s, t.word[i])
         IN (IF hit THEN 1 ELSE 0) + CountMatches(Tail(terms), s)

\* search matching the words against the content as it was read
search_noLowerCase(d, fl, terms) ==
    LET title == CountMatches(terms, fl.name)
        r == read(d, fl)
    IN IF title = Len(terms)
       THEN [err |-> "", file |-> fl, ret |-> TRUE, trace |-> <<>>]
       ELSE IF r.err # ""
       THEN [err |-> r.err, file |-> fl, ret |-> FALSE, trace |-> r.trace]
       ELSE [err |-> "", file |-> r.file, trace |-> r.trace,
             ret |-> (title + CountMatches(terms, r.ret) = Len(terms))]

\* search counting the matches of the content apart from those of the title
search_resetsCounter(d, fl, terms) ==
    LET title == CountMatches(terms, fl.name)
        r == read(d, fl)
    IN IF title = Len(terms)
       THEN [err |-> "", file |-> fl, ret |-> TRUE, trace |-> <<>>]
       ELSE IF r.err # ""
       THEN [err |-> r.err, file |-> fl, ret |-> FALSE, trace |-> r.trace]
       ELSE [err |-> "", file |-> r.file, trace |-> r.trace,
             ret |-> (CountMatches(terms, toLowerCase(r.ret)) = Len(terms))]

\* search(terms): title pass, early return, content pass on one counter
search(d, fl, terms) ==
    LET title == CountMatches(terms, fl.name)
        r == read(d, fl)
    IN IF title = Len(terms)
       THEN [err |-> "", file |-> fl, ret |-> TRUE, trace |-> <<>>]
       ELSE IF r.err # ""
       THEN [err |-> r.err, file |-> fl, ret |-> FALSE, trace |-> r.trace]
       ELSE [err |-> "", file |-> r.file, trace |-> r.trace,
             ret |-> (title + CountMatches(terms, toLowerCase(r.ret)) = Len(terms))]

(* ------------------------------ findFile ------------------------------- *)
\* findFile looking at the hash before the path
findFile_hashFirst(fl, obj) ==
    IF obj.hasHash
    THEN [err |-> "", ret |-> IF fl.hash = obj.hash THEN "this" ELSE "null"]
    ELSE IF obj.hasPath
    THEN [err |-> "", ret |-> IF fl.path = obj.path THEN "this" ELSE "null"]
    ELSE [err |-> "FileError", ret |-> "null"]

\* findFile(obj): has.. is hasOwnProperty together with != null
findFile(fl, obj) ==
    IF obj.hasPath
    THEN [err |-> "", ret |-> IF fl.path = obj.path THEN "this" ELSE "null"]
    ELSE IF obj.hasHash
    THEN [err |-> "", ret |-> IF fl.hash = obj.hash THEN "this" ELSE "null"]
    ELSE [err |-> "FileError", ret |-> "null"]

(* ---------------------------- construction ----------------------------- *)
\* new ZettlrFile(parent, fname): the file is created empty when it does not
\* exist, then read
constructor(d, parentDir, fname) ==
    LET d1 == IF fname \in DOMAIN d THEN d ELSE writeFileSync(d, fname, <<>>, 0)
        fl == [parent |-> parentDir, name |-> fname.name, path |-> fname,
               hash |-> hash(fname), modtime |-> 0, snippet |-> <<>>,
               content |-> <<>>, modified |-> FALSE]
    IN [file |-> read(d1, fl).file, disk |-> d1]

HomePath == Path("/n", NameA)
NoDisk == [q \in {} |-> 0]

Init ==
    \E d \in {NoDisk} \cup {writeFileSync(NoDisk, HomePath, x, 0) : x \in ForeignTexts} :
        LET c == constructor(d, "/n", HomePath)
        IN /\ file = c.file
           /\ disk = c.disk
           /\ attached = TRUE
           /\ clock = 0
           /\ ignored = <<>>
           /\ events = <<>>
           /\ trace = <<>>
           /\ last = Last("new", "", "this")
           /\ pendingSet = None
           /\ roundTrip = None

(* ------------------------------- actions ------------------------------- *)
\* setContent(cnt)
SetContent(cnt) ==
    /\ file' = [file EXCEPT !.content = cnt, !.snippet = Snippet(cnt),
                            !.modified = TRUE]
    /\ trace' = <<>>
    /\ last' = Last("setContent", "", "")
    /\ pendingSet' = Some(cnt)
    /\ UNCHANGED <<attached, disk, clock, ignored, events, roundTrip>>

\* read()
Read ==
    LET r == read(disk, file)
    IN /\ file' = r.file
       /\ trace' = r.trace
       /\ last' = Last("read", r.err, r.ret)
       /\ UNCHANGED <<attached, disk, clock, ignored, events, pendingSet,
                      roundTrip>>

\* update()
Update ==
    LET r == update(disk, file)
    IN /\ file' = r.file
       /\ trace' = r.trace
       /\ last' = Last("update", r.err, "this")
       /\ UNCHANGED <<attached, disk, clock, ignored, events, pendingSet,
                      roundTrip>>

\* get(hash), with the model's hash or another one
Get(h) ==
    LET r == IF file.hash = h THEN read(disk, file)
             ELSE [err |-> "", file |-> file, ret |-> "null", trace |-> <<>>]
    IN /\ file' = r.file
       /\ trace' = r.trace
       /\ last' = Last("get", r.err, r.ret)
       /\ UNCHANGED <<attached, disk, clock, ignored, events, pendingSet,
                      roundTrip>>

\* withContent(): a copy of the fields whose content is what read() returns
WithContent ==
    LET r == read(disk, file)
    IN /\ file' = r.file
       /\ trace' = r.trace
       /\ last' = Last("withContent", r.err, [file EXCEPT !.content = r.ret])
       /\ UNCHANGED <<attached, disk, clock, ignored, events, pendingSet,
                      roundTrip>>

\* findFile(obj)
FindFile(obj) ==
    LET r == findFile(file, obj)
    IN /\ trace' = <<>>
       /\ last' = [Last("findFile", r.err, r.ret) EXCEPT !.arg = obj]
       /\ UNCHANGED <<file, attached, disk, clock, ignored, events,
                      pendingSet, roundTrip>>

\* search(terms)
Search(terms) ==
    LET r == search(disk, file, terms)
    IN /\ file' = r.file
       /\ trace' = r.trace
       /\ last' = [Last("search", r.err, r.ret) EXCEPT !.arg = terms]
       /\ UNCHANGED <<attached, disk, clock, ignored, events, pendingSet,
                      roundTrip>>

\* save(); the write is reported to the watchdog as 'change', or as 'add'
\* when it created the file
Save ==
    /\ clock < MaxClock
    /\ Len(events) + 2 <= MaxEvents
    /\ LET r == save(disk, file, clock + 1)
           ev == Event(IF file.path \in DOMAIN disk THEN "change" ELSE "add",
                       file.path, TRUE)
       IN /\ file' = r.file
          /\ disk' = r.disk
          /\ trace' = r.trace
          /\ last' = Last("save", r.err, "this")
          /\ clock' = IF r.err = "" THEN clock + 1 ELSE clock
          /\ events' = IF r.err = "" THEN Append(events, ev) ELSE events
          /\ pendingSet' = IF r.err = "" THEN None ELSE pendingSet
          /\ roundTrip' = IF r.err = "" THEN pendingSet ELSE roundTrip
    /\ UNCHANGED <<attached, ignored>>

\* remove()
Remove ==
    /\ Len(events) + 2 <= MaxEvents
    /\ LET r == remove(disk, file, attached)
       IN /\ disk' = r.disk
          /\ attached' = r.attached
          /\ events' = events \o r.events
          /\ trace' = r.trace
          /\ last' = Last("remove", r.err, "")
    /\ roundTrip' = None
    /\ UNCHANGED <<file, clock, ignored, pendingSet>>

\* detach()
Detach ==
    LET r == detach(file, attached)
    IN /\ file' = r.file
       /\ attached' = r.attached
       /\ trace' = r.trace
       /\ last' = Last("detach", r.err, "this")
       /\ UNCHANGED <<disk, clock, ignored, events, pendingSet, roundTrip>>

\* rename(name, watchdog)
Rename(nm, wd) ==
    /\ Len(events) + 2 <= MaxEvents
    /\ wd = "own" => Len(ignored) + 2 <= MaxIgnored
    /\ LET r == rename(disk, file, ignored, nm, wd)
       IN /\ file' = r.file
          /\ disk' = r.disk
          /\ ignored' = r.ignored
          /\ events' = events \o r.events
          /\ trace' = r.trace
          /\ last' = [Last("rename", r.err, "this") EXCEPT !.name = nm, !.wd = wd]
    /\ UNCHANGED <<attached, clock, pendingSet, roundTrip>>

\* move(toPath)
Move(toPath) ==
    /\ Len(events) + 2 <= MaxEvents
    /\ LET r == move(disk, file, attached, toPath)
       IN /\ file' = r.file
          /\ attached' = r.attached
          /\ disk' = r.disk
          /\ events' = events \o r.events
          /\ trace' = r.trace
          /\ last' = Last("move", r.err, "this")
    /\ UNCHANGED <<clock, ignored, pendingSet, roundTrip>>

\* the caller of move() or detach() attaches the model to the directory
\* model of the directory its path names
Attach ==
    /\ file.parent = "null"
    /\ file' = [file EXCEPT !.parent = file.path.dir]
    /\ attached' = TRUE
    /\ trace' = <<>>
    /\ last' = Last("attach", "", "")
    /\ UNCHANGED <<disk, clock, ignored, events, pendingSet, roundTrip>>

\* The watchdog takes its oldest event.  An event that matches a suppression
\* entry is dropped together with the entry; any other event goes through the
\* directory tree to handleEvent of the models that are in it.
Suppressed(e) == \E i \in 1..Len(ignored) :
                     ignored[i] = [type |-> e.type, path |-> e.path]
DropEntry(e) ==
    LET i == CHOOSE j \in 1..Len(ignored) :
                 /\ ignored[j] = [type |-> e.type, path |-> e.path]
                 /\ \A k \in 1..(j - 1) : ignored[k] # ignored[j]
    IN SubSeq(ignored, 1, i - 1) \o SubSeq(ignored, i + 1, Len(ignored))

Deliver ==
    /\ events # <<>>
    /\ LET e == Head(events)
           r == handleEvent(disk, file, attached, e.path, e.type)
       IN IF Suppressed(e)
          THEN /\ ignored' = DropEntry(e)
               /\ events' = Tail(events)
               /\ trace' = <<>>
               /\ last' = [Last("suppressed", "", "") EXCEPT !.ev = e]
               /\ UNCHANGED <<file, attached, disk, roundTrip>>
          ELSE IF ~attached
          THEN /\ events' = Tail(events)
               /\ trace' = <<>>
               /\ last' = [Last("undelivered", "", "") EXCEPT !.ev = e]
               /\ UNCHANGED <<file, attached, disk, ignored, roundTrip>>
          ELSE /\ file' = r.file
               /\ disk' = r.disk
               /\ attached' = r.attached
                    /\ events' = Tail(events) \o r.events
               /\ trace' = r.trace
               /\ last' = [Last("handleEvent", r.err, "") EXCEPT !.ev = e]
               /\ roundTrip' = IF r.disk = disk THEN roundTrip ELSE None
               /\ UNCHANGED ignored
    /\ UNCHANGED <<clock, pendingSet>>

\* another program writes a file
ForeignWrite(p, text) ==
    /\ clock < MaxClock
    /\ Len(events) + 2 <= MaxEvents
    /\ p \in DOMAIN disk
    /\ disk' = [disk EXCEPT ![p] = [content |-> text, mtime |-> clock + 1]]
    /\ clock' = clock + 1
    /\ events' = Append(events, Event("change", p, FALSE))
    /\ roundTrip' = None
    /\ trace' = <<>>
    /\ last' = Last("foreignWrite", "", "")
    /\ UNCHANGED <<file, attached, ignored, pendingSet>>

\* another program deletes a file
ForeignUnlink(p) ==
    /\ Len(events) + 2 <= MaxEvents
    /\ p \in DOMAIN disk
    /\ disk' = unlinkFile(disk, p)
    /\ events' = Append(events, Event("unlink", p, FALSE))
    /\ roundTrip' = None
    /\ trace' = <<>>
    /\ last' = Last("foreignUnlink", "", "")
    /\ UNCHANGED <<file, attached, clock, ignored, pendingSet>>

HashInputs == {hash(HomePath), 0}
QueryInputs ==
    {[hasPath |-> hp, path |-> p, hasHash |-> hh, hash |-> h] :
        hp \in BOOLEAN, p \in {HomePath, Path("/a", NameA)},
        hh \in BOOLEAN, h \in HashInputs}

\* The operations that decide where the file is and who owns the model:
\* read, save, remove, detach, rename, move, the caller's attach, the
\* watchdog and the other programs.
Next ==
    \/ Read
    \/ Save
    \/ Remove
    \/ Detach
    \/ \E nm \in NameInputs, wd \in WatchdogInputs : Rename(nm, wd)
    \/ \E toPath \in DirsOnDisk : Move(toPath)
    \/ Attach
    \/ Deliver
    \/ \E p \in DOMAIN disk, text \in ForeignTexts : ForeignWrite(p, text)
    \/ \E p \in DOMAIN disk : ForeignUnlink(p)

Spec == Init /\ [][Next]_vars

\* The operations on the text, with every text, next to one rename and one
\* move that take the file to another path.
NextContent ==
    \/ \E cnt \in ContentInputs : SetContent(cnt)
    \/ Read
    \/ Update
    \/ \E h \in HashInputs \cup {file.hash} : Get(h)
    \/ WithContent
    \/ Save
    \/ Rename(NameB, "inherited")
    \/ Move("/a")
    \/ Attach
    \/ Deliver
    \/ \E p \in DOMAIN disk, text \in ForeignTexts : ForeignWrite(p, text)
    \/ \E p \in DOMAIN disk : ForeignUnlink(p)

SpecContent == Init /\ [][NextContent]_vars

\* The queries (findFile, search, get, withContent) on a file whose text is
\* set and saved by the program and rewritten or removed by other programs.
NextQuery ==
    \/ \E cnt \in ContentInputs : SetContent(cnt)
    \/ \E h \in HashInputs \cup {file.hash} : Get(h)
    \/ WithContent
    \/ \E obj \in QueryInputs : FindFile(obj)
    \/ \E terms \in SearchInputs : Search(terms)
    \/ Save
    \/ Deliver
    \/ \E p \in DOMAIN disk, text \in ForeignTexts : ForeignWrite(p, text)
    \/ \E p \in DOMAIN disk : ForeignUnlink(p)

SpecQuery == Init /\ [][NextQuery]_vars

(* ------------------------------- claims -------------------------------- *)
\* no unpaired surrogate in s
RECURSIVE WellFormed(_)
WellFormed(s) ==
    IF s = <<>> THEN TRUE
    ELSE IF IsHighSurrogate(s[1])
         THEN Len(s) >= 2 /\ IsLowSurrogate(s[2]) /\ WellFormed(SubSeq(s, 3, Len(s)))
    ELSE ~IsLowSurrogate(s[1]) /\ WellFormed(Tail(s))

DiskText(d, p) == Utf8Decode(d[p].content)
Calls(tr, c) == {i \in 1..Len(tr) : tr[i].call = c}
FinalName(nm) == IF ignoreFile(sanitize(nm)) THEN sanitize(nm) \o DotMd ELSE sanitize(nm)

\* C1: in every reachable state a non-empty buffer implies that the
\* modified flag is set.
C1_BufferImpliesModified == file.content # <<>> => file.modified

\* C2 as stated: after every successful save the flag is clear, the buffer
\* is empty, the text on disk equals the buffer held before the call, the
\* snippet is the preview of the text on disk and modtime is the disk mtime.
C2_SaveWritesBuffer ==
    [][(last'.op = "save" /\ last'.err = "") =>
          /\ ~file'.modified
          /\ file'.content = <<>>
          /\ file'.path \in DOMAIN disk'
          /\ DiskText(disk', file'.path) = file.content
          /\ file'.snippet = Snippet(DiskText(disk', file'.path))
          /\ file'.modtime = disk'[file'.path].mtime]_vars

\* C2 amended: after every successful save the flag is clear, the buffer is
\* empty, the file holds the UTF-8 encoding of the buffer held before the
\* call, which reads back as that text when it has no unpaired surrogate,
\* the snippet is the preview of the text on disk and modtime is the disk
\* mtime.
C2_SaveWritesEncodedBuffer ==
    [][(last'.op = "save" /\ last'.err = "") =>
          /\ ~file'.modified
          /\ file'.content = <<>>
          /\ file'.path \in DOMAIN disk'
          /\ disk'[file'.path].content = Utf8Encode(file.content)
          /\ WellFormed(file.content) => DiskText(disk', file'.path) = file.content
          /\ file'.snippet = Snippet(DiskText(disk', file'.path))
          /\ file'.modtime = disk'[file'.path].mtime]_vars

\* a save of a text longer than the preview, after the file went elsewhere
C2_Witness ==
    /\ last.op = "save" /\ last.err = ""
    /\ roundTrip = Some(LongText)
    /\ file.path # HomePath
    /\ Len(file.snippet) = SnippetLen + 1

\* C3 as stated: a read after a save returns the text of the last
\* setContent before that save, for every text, when no other program wrote
\* the file after the save.
C3_RoundTripEveryText ==
    (last.op = "read" /\ last.err = "" /\ roundTrip.set) => last.ret = roundTrip.text

\* C3 amended: a read after a save returns the text of the last setContent
\* before that save, for every text without unpaired surrogates, when no
\* other program wrote the file after the save.
C3_RoundTripWellFormed ==
    (last.op = "read" /\ last.err = "" /\ roundTrip.set /\ WellFormed(roundTrip.text))
        => last.ret = roundTrip.text

\* a read that returns the long text a save wrote
C3_Witness ==
    /\ last.op = "read" /\ last.err = ""
    /\ roundTrip = Some(LongText)
    /\ last.ret = LongText

\* C4: after read, update or a handled 'change' event for the model's path
\* the buffer is empty and the modified flag is clear.
C4_RereadClearsBuffer ==
    (/\ \/ last.op \in {"read", "update"}
        \/ last.op = "handleEvent" /\ last.ev.type = "change" /\ last.ev.path = file.path
     /\ last.err = "")
        => (file.content = <<>> /\ ~file.modified)

\* C5: in every reachable state, after successful and failed renames and
\* moves, the hash is the hash of the current path.
C5_HashOfPath == file.hash = hash(file.path)

\* a failed move that changed the path
C5_Witness ==
    /\ last.op = "move" /\ last.err = "ENOENT"
    /\ file.path # HomePath
    /\ file.path \notin DOMAIN disk

\* C6: a rename whose name sanitizes to empty fails with the FileError and
\* changes nothing: no field of the model, nothing on disk, no sort call, no
\* ignoreNext call.
C6_InvalidNameChangesNothing ==
    [][(last'.op = "rename" /\ sanitize(last'.name) = <<>>) =>
          /\ last'.err = "FileError"
          /\ trace' = <<>>
          /\ UNCHANGED <<file, attached, disk, clock, ignored, events>>]_vars

\* an invalid rename with a watchdog, on a model that was renamed before
C6_Witness ==
    /\ last.op = "rename" /\ last.err = "FileError" /\ last.wd = "own"
    /\ file.path = Path("/n", NameB)
    /\ attached

\* C7: a rename without a watchdog, on an attached model whose file exists,
\* with a valid name, renames the file, sets path, name and hash, calls the
\* parent's sort and returns.
C7_RenameWithoutWatchdog ==
    [][(/\ last'.op = "rename" /\ last'.wd = "null"
        /\ sanitize(last'.name) # <<>>
        /\ attached /\ file.parent # "null"
        /\ file.path \in DOMAIN disk) =>
          LET newpath == Path(file.path.dir, FinalName(last'.name))
          IN /\ last'.err = ""
             /\ file'.path = newpath
             /\ file'.name = FinalName(last'.name)
             /\ file'.hash = hash(newpath)
             /\ newpath \in DOMAIN disk'
             /\ Calls(trace', "parent.sort") # {}]_vars

\* C8: a rename with a watchdog and a valid name installs exactly the
\* entries ('unlink', old path) and ('add', new path), both ahead of the
\* filesystem rename.
C8_RenameInstallsSuppression ==
    [][(/\ last'.op = "rename" /\ last'.wd # "null"
        /\ sanitize(last'.name) # <<>>) =>
          LET newpath == Path(file.path.dir, FinalName(last'.name))
          IN /\ ignored' = ignored \o ignoreNextEntries(file.path, newpath)
             /\ Len(trace') >= 3
             /\ SubSeq(trace', 1, 2) = ignoreNextCalls(file.path, newpath)
             /\ trace'[3].call = "fs.renameSync"
             /\ Calls(trace', "watchdog.ignoreNext") = {1, 2}]_vars

\* C9: handleEvent never notifies the parent and never removes the model
\* for an event that the model's own save, rename or move caused.
C9_NoReactionToOwnEvents ==
    (last.op = "handleEvent" /\ last.ev.self) =>
        /\ Calls(trace, "parent.notifyChange") = {}
        /\ Calls(trace, "parent.remove") = {}

\* C10: a handled 'unlink' for the model's path notifies the parent, then
\* trashes the file, then removes the model from the parent; a handled
\* 'change' for the model's path reads the disk and only then notifies.
C10_HandleEventOrder ==
    (last.op = "handleEvent" /\ last.ev.path = file.path) =>
        /\ last.ev.type = "unlink" =>
              trace = <<NotifyRemoved,
                        Call("shell.moveItemToTrash", "", file.path, NoPath),
                        Call("parent.remove", "", NoPath, NoPath)>>
        /\ last.ev.type = "change" =>
              /\ last.err = "" =>
                    trace = <<Call("fs.readFileSync", "", file.path, NoPath),
                              NotifyChanged>>
              /\ \A i \in Calls(trace, "parent.notifyChange") :
                    \E j \in 1..(i - 1) : trace[j].call = "fs.readFileSync"

\* a handled 'unlink' that another program caused
C10_Witness ==
    /\ last.op = "handleEvent" /\ last.err = ""
    /\ last.ev = Event("unlink", file.path, FALSE)
    /\ ~attached

\* C11: handleEvent(p, e) with p other than the model's current path does
\* nothing, whatever e is: no call on the parent, on the disk or on the
\* shell, no removal, no error, and the model and the disk stay as they are.
\* This covers the event that names the old path after a rename or a move.
C11_OutOfScopeEventIsNoOp ==
    [][(last'.op = "handleEvent" /\ last'.ev.path # file.path)
        => /\ file' = file
           /\ disk' = disk
           /\ attached' = attached
           /\ ignored' = ignored
           /\ trace' = <<>>
           /\ last'.err = ""]_vars

\* an 'unlink' of the old path was handled by the renamed or moved model
C11_Witness ==
    /\ last.op = "handleEvent"
    /\ last.ev = Event("unlink", HomePath, TRUE)
    /\ file.path # HomePath
    /\ attached
    /\ trace = <<>>

\* a step in which remove(), detach(), move() or the handling of an in-scope
\* 'unlink' has returned
Detaching(op) ==
    /\ last'.err = ""
    /\ \/ last'.op = op
       \/ op = "unlink" /\ last'.op = "handleEvent" /\ last'.ev.type = "unlink"
                        /\ last'.ev.path = file.path

\* C12 (as stated): after remove(), detach(), move() and a handled 'unlink'
\* the model is not among its parent's children and its parent reference is
\* null.
C12_DetachedAndParentNull ==
    [][(\E op \in {"remove", "detach", "move", "unlink"} : Detaching(op))
        => (~attached' /\ file'.parent = "null")]_vars

\* C12 (amended): after remove(), detach(), move() and a handled 'unlink' the
\* model is not among its parent's children; its parent reference is null
\* after detach() and move(), and is the one it had after remove() and after
\* a handled 'unlink'.
C12_DetachedParentKeptByRemove ==
    [][/\ (\E op \in {"remove", "detach", "move", "unlink"} : Detaching(op))
            => ~attached'
       /\ (Detaching("detach") \/ Detaching("move")) => file'.parent = "null"
       /\ (Detaching("remove") \/ Detaching("unlink")) => file'.parent = file.parent]_vars

\* remove() has returned on a model that still names its parent
C12_Witness ==
    /\ last.op = "remove"
    /\ last.err = ""
    /\ ~attached
    /\ file.parent = "/n"

\* the term t is matched by the text s
TermMatches(t, s) ==
    IF t.operator = "AND" THEN Contains(s, t.word)
    ELSE \E i \in 1..Len(t.word) : Contains(s, t.word[i])

\* the text of the model's file as a read returns it, empty when there is
\* no file
ContentNow == IF file.path \in DOMAIN disk THEN DiskText(disk, file.path) ELSE <<>>

\* search(terms) has returned for a list of one term
SearchedOne == last.op = "search" /\ last.err = "" /\ Len(last.arg) = 1

\* C13 (as stated): for one term, search returns true exactly when the word
\* (for OR: one of the words) is a substring of the file name or of the file
\* content, the letter case being the one given.
C13_SingleTermSubstring ==
    SearchedOne
    => last.ret = (TermMatches(last.arg[1], file.name)
                   \/ TermMatches(last.arg[1], ContentNow))

\* C13 (amended): for one term, search returns true exactly when the word
\* (for OR: one of the words) is a substring of the file name or of the
\* lower-cased file content.
C13_SingleTermLowerCasedContent ==
    SearchedOne
    => last.ret = (TermMatches(last.arg[1], file.name)
                   \/ TermMatches(last.arg[1], toLowerCase(ContentNow)))

\* an OR term was found in a content that holds it in upper case only
C13_Witness ==
    /\ SearchedOne
    /\ last.arg = <<TermQX>>
    /\ last.ret = TRUE
    /\ ContentNow = <<88>>
    /\ ~TermMatches(TermQX, file.name)

\* C14: findFile(obj) with a path answers by the path alone, whatever the
\* hash of obj is; without a path and with a hash it answers by the hash;
\* with neither it throws; a query that does not match returns null without
\* an error; and no call changes the model, the disk or the parent's list.
C14_FindFileByPathThenHash ==
    [][last'.op = "findFile"
        => LET q == last'.arg
               found(b) == /\ last'.err = ""
                           /\ last'.ret = IF b THEN "this" ELSE "null"
           IN /\ q.hasPath => found(q.path = file.path)
              /\ (~q.hasPath /\ q.hasHash) => found(q.hash = file.hash)
              /\ (~q.hasPath /\ ~q.hasHash) => last'.err = "FileError"
              /\ UNCHANGED <<file, attached, disk, ignored, events>>
              /\ trace' = <<>>]_vars

\* a query with the model's path and another hash returned the model
C14_Witness ==
    /\ last.op = "findFile"
    /\ last.err = ""
    /\ last.ret = "this"
    /\ last.arg.hasPath /\ last.arg.path = file.path
    /\ last.arg.hasHash /\ last.arg.hash # file.hash

\* C15: whenever rename() or move() has returned or failed, name is the last
\* component of path, hash is the hash of path, and the file, if there is
\* one, is at path.
C15_NoPartialRenameOrMove ==
    last.op \in {"rename", "move"}
    => /\ file.name = file.path.name
       /\ file.hash = hash(file.path)
       /\ (DOMAIN disk # {} => file.path \in DOMAIN disk)

\* the two passes of search on one counter with no return between them
search_noEarlyReturn(d, fl, terms) ==
    LET title == CountMatches(terms, fl.name)
        r == read(d, fl)
    IN IF r.err # ""
       THEN [err |-> r.err, file |-> fl, ret |-> FALSE, trace |-> r.trace]
       ELSE [err |-> "", file |-> r.file, trace |-> r.trace,
             ret |-> (title + CountMatches(terms, toLowerCase(r.ret)) = Len(terms))]

\* search(terms) has returned on a model whose file is on disk
Searched == last.op = "search" /\ last.err = "" /\ file.path \in DOMAIN disk

\* C16 (as stated): search(terms) returns what the same two passes return
\* when the return after the title pass is left out.
C16_EarlyReturnChangesNothing ==
    Searched => last.ret = search_noEarlyReturn(disk, file, last.arg).ret

\* C16 (amended): search(terms) returns true whenever the two passes without
\* the early return do, and returns the same as they do whenever the title
\* does not match every term; when the title matches every term, search
\* returns true whatever the two passes without the early return give.
C16_EarlyReturnOnlyAddsTrue ==
    Searched
    => LET v == search_noEarlyReturn(disk, file, last.arg).ret
           title == CountMatches(last.arg, file.name)
       IN /\ v => last.ret
          /\ title < Len(last.arg) => last.ret = v
          /\ title = Len(last.arg) => last.ret

\* the title matched the one term, and so does the content: search returned
\* true where the passes without the early return count two matches
C16_Witness ==
    /\ Searched
    /\ last.arg = <<TermA>>
    /\ last.ret = TRUE
    /\ ContentNow = LongText
    /\ ~search_noEarlyReturn(disk, file, last.arg).ret

\* C17: when every term is matched by the file name or by the lower-cased
\* content, search returns true.
C17_AllTermsMatchedIsFound ==
    (Searched /\ \A i \in 1..Len(last.arg) :
                    \/ TermMatches(last.arg[i], file.name)
                    \/ TermMatches(last.arg[i], toLowerCase(ContentNow)))
    => last.ret = TRUE

\* C18: every suppression entry that rename has installed is matched by a
\* pending event that the rename itself caused, so that none is left over
\* when rename fails at the filesystem step, and the event that an entry
\* suppresses is never one caused by another program.
C18_EntriesMatchOwnEvents ==
    /\ \A i \in 1..Len(ignored) :
          \E j \in 1..Len(events) :
              /\ events[j].self
              /\ events[j].type = ignored[i].type
              /\ events[j].path = ignored[i].path
    /\ last.op = "suppressed" => last.ev.self

\* C19: a save() called while isModified() is false leaves the content of
\* the file on disk as it was.
C19_SaveUnmodifiedKeepsDisk ==
    [][(last'.op = "save" /\ ~file.modified /\ file.path \in DOMAIN disk)
        => /\ file.path \in DOMAIN disk'
           /\ disk'[file.path].content = disk[file.path].content]_vars

\* C20: search, get(hash) and withContent() leave the buffer, isModified(),
\* the snippet, path, name, hash, the parent and the disk as they were, in
\* every state, unsaved edits included.
C20_QueriesChangeNothing ==
    [][last'.op \in {"search", "get", "withContent"}
        => /\ file'.content = file.content
           /\ file'.modified = file.modified
           /\ file'.snippet = file.snippet
           /\ file'.path = file.path
           /\ file'.name = file.name
           /\ file'.hash = file.hash
           /\ file'.parent = file.parent
           /\ attached' = attached
           /\ disk' = disk]_vars

====
